---- MODULE Spec2Model ----
(***************************************************************************)
(* A model of yt-transcriber: the filename/path builder                    *)
(* (src/src/utils/filename.py), the BatchState container                   *)
(* (src/src/core/models.py), the Streamlit workflow (src/yt_transcriber_ui *)
(* .py) and the command-line loop (src/cli.py).                            *)
(*                                                                         *)
(* Text is a sequence of one-character strings, so that sanitization,      *)
(* truncation and suffixing are computed character by character.           *)
(* The pure functions of src/src/core/downloader.py and                    *)
(* src/src/core/writers.py are called on inputs drawn from bounded sets.   *)
(***************************************************************************)
EXTENDS Integers, Sequences, FiniteSets, TLC

VARIABLES
    phase, pending_videos, results,          \* a BatchState object (models.py)
    ss_phase, ss_pending_videos, ss_results, \* st.session_state (yt_transcriber_ui.py)
    run,                                     \* the script run of render_processing_phase
    fs, dirs,                                \* the output directory tree
    given,                                   \* URLs given to this session so far
    cli,                                     \* the run of cli.main
    uniq,                                    \* the callers of generate_unique_filename
    call                                     \* a call of one of the pure functions

vars == <<phase, pending_videos, results, ss_phase, ss_pending_videos, ss_results,
          run, fs, dirs, given, cli, uniq, call>>

(***************************************************************************)
(* Bounds of the model.                                                    *)
(***************************************************************************)
\* the URLs one session of the workflow, or one command line, is given in all
MaxItems == 3
\* the callers of generate_unique_filename, and the calls they make in all
NumWorkers == 2
MaxCalls == 2

(***************************************************************************)
(* Text helpers.                                                           *)
(***************************************************************************)
Digits == <<"0", "1", "2", "3", "4", "5", "6", "7", "8", "9">>

RECURSIVE NatToStr(_)
\* str(counter) inside an f-string
NatToStr(n) ==
    IF n < 10 THEN <<Digits[n + 1]>>
    ELSE NatToStr(n \div 10) \o <<Digits[(n % 10) + 1]>>

RECURSIVE LStrip(_, _)
LStrip(s, cs) ==
    IF s # <<>> /\ Head(s) \in cs THEN LStrip(Tail(s), cs) ELSE s

RECURSIVE RStrip(_, _)
RStrip(s, cs) ==
    IF s # <<>> /\ s[Len(s)] \in cs THEN RStrip(SubSeq(s, 1, Len(s) - 1), cs) ELSE s

Strip(s, cs) == RStrip(LStrip(s, cs), cs)

\* s[:n]
Take(s, n) == SubSeq(s, 1, IF Len(s) < n THEN Len(s) ELSE n)

RECURSIVE SubRuns(_, _, _)
\* re.sub(cs+, rep, s): every maximal run of characters of cs becomes rep
SubRuns(s, cs, rep) ==
    IF s = <<>> THEN <<>>
    ELSE IF Head(s) \in cs
         THEN rep \o SubRuns(LStrip(s, cs), cs, rep)
         ELSE <<Head(s)>> \o SubRuns(Tail(s), cs, rep)

\* the characters of the model's texts, by the classes the patterns tell apart
\* [<>:"/\\|?*\x00-\x1f]
IllegalChars == {"<", ">", ":", "\"", "/", "\\", "|", "?", "*", "\t"}
\* \s, once the control characters are gone
SpaceChars == {" "}
\* the other characters that are neither \w, \s nor "-"; every character outside
\* these three sets and "-" is a word character (letters, digits, "_")
OtherChars == {".", ",", "!", "'", "(", ")", "&", "#"}
Untitled == <<"u", "n", "t", "i", "t", "l", "e", "d">>

\* the texts of the model's naming fields
TextX == <<"X">>
TextY == <<"Y">>
TextAB == <<"A", "/", "B">>
TextTalk == <<"T", "a", "l", "k", ":", " ", "I", "n", "t", "r", "o", "?">>
Text2024 == <<"2", "0", "2", "4">>
TextB == <<"B">>
TextT == <<"T">>
Text1999 == <<"1", "9", "9", "9">>
NamingTexts == {TextX, TextY, TextAB, TextTalk, Text2024, TextB, TextT, Text1999}

\* the texts build_filename is called on by itself: empty, of whitespace, of
\* removed characters or of separators only, and with characters that stay
BuildTexts == {<<>>, <<" ">>, <<"/", ".">>, <<"_", " ", "_">>, <<"a">>, TextTalk}
\* the max lengths of the topic in these calls
BuildMaxLengths == {2, 50}

(***************************************************************************)
(* src/src/utils/filename.py                                               *)
(***************************************************************************)
AuthorMaxLength == 30
YearMaxLength == 4
FolderMaxLength == 50
DefaultMaxLength == 50
SafetyLimit == 100

\* sanitize_for_filename that returns the cleaned text as it is, empty or not
sanitize_without_placeholder(text, max_length) ==
    IF text = <<>> THEN Untitled
    ELSE
      LET c1 == SelectSeq(text, LAMBDA c : c \notin IllegalChars)
          c2 == SelectSeq(c1, LAMBDA c : c \notin IllegalChars \cup OtherChars)
          c3 == SubRuns(Strip(c2, SpaceChars), SpaceChars, <<"_">>)
          c4 == SubRuns(c3, {"_"}, <<"_">>)
          c5 == Strip(c4, {"_"})
      IN IF Len(c5) > max_length
         THEN RStrip(SubSeq(c5, 1, max_length), {"_"})
         ELSE c5

\* sanitize_for_filename (the fallback implementation), with replacement "_"
sanitize_for_filename(text, max_length) ==
    IF text = <<>> THEN Untitled
    ELSE
      LET c1 == SelectSeq(text, LAMBDA c : c \notin IllegalChars)
          c2 == SelectSeq(c1, LAMBDA c : c \notin IllegalChars \cup OtherChars)
          c3 == SubRuns(Strip(c2, SpaceChars), SpaceChars, <<"_">>)
          c4 == SubRuns(c3, {"_"}, <<"_">>)
          c5 == Strip(c4, {"_"})
          c6 == IF Len(c5) > max_length
                THEN RStrip(SubSeq(c5, 1, max_length), {"_"})
                ELSE c5
      IN IF c6 = <<>> THEN Untitled ELSE c6

\* sanitize_for_filename on the naming texts and the max lengths its callers
\* pass, computed once and held as an explicit table (@@ makes the table)
SanitizeTable ==
    [a \in (NamingTexts \cup BuildTexts)
              \X ({AuthorMaxLength, YearMaxLength, FolderMaxLength, DefaultMaxLength}
                    \cup BuildMaxLengths) |->
       sanitize_for_filename(a[1], a[2])] @@ << >>

\* the call sanitize_for_filename(text, max_length=max_length) of the callers
sanitized(text, max_length) == SanitizeTable[<<text, max_length>>]

build_filename(author, topic, year, max_length) ==
    sanitized(author, AuthorMaxLength) \o <<"_">>
      \o sanitized(topic, max_length) \o <<"_">>
      \o sanitized(year, YearMaxLength)

\* the directory build_output_path creates (mkdir(parents=True, exist_ok=True))
output_dir(author) == sanitized(author, FolderMaxLength)

\* the path build_output_path returns, below the expanded base directory
build_output_path(author, filename, extension) ==
    [dir |-> output_dir(author), name |-> filename, ext |-> LStrip(extension, {"."})]

\* unique_loop with one more attempt than the safety limit allows
unique_loop_past_limit(exists, author, filename, extension) ==
    LET path(counter) ==
            build_output_path(author, filename \o <<"_">> \o NatToStr(counter), extension)
        taken == {c \in 2..(SafetyLimit + 1) : path(c) \in exists}
        reached == {c \in 2..(SafetyLimit + 1) : \A b \in 2..(c - 1) : b \in taken}
        free == {c \in reached : c \notin taken}
    IN IF free = {} THEN [ok |-> FALSE, error |-> "ValueError"]
       ELSE [ok |-> TRUE, path |-> path(CHOOSE c \in free : TRUE)]

\* the while loop of generate_unique_filename. The loop starts at counter 2 and
\* goes on from c to c + 1 when the path numbered c exists and c + 1 is within
\* the safety limit; it returns the path of the counter it reaches that is free
unique_loop(exists, author, filename, extension) ==
    LET path(counter) ==
            build_output_path(author, filename \o <<"_">> \o NatToStr(counter), extension)
        taken == {c \in 2..SafetyLimit : path(c) \in exists}
        reached == {c \in 2..SafetyLimit : \A b \in 2..(c - 1) : b \in taken}
        free == {c \in reached : c \notin taken}
    IN IF free = {} THEN [ok |-> FALSE, error |-> "ValueError"]
       ELSE [ok |-> TRUE, path |-> path(CHOOSE c \in free : TRUE)]

\* exists: the paths for which path.exists() is true
generate_unique_filename(exists, author, topic, year, extension) ==
    LET filename == build_filename(author, topic, year, DefaultMaxLength)
        path == build_output_path(author, filename, extension)
    IN IF path \notin exists THEN [ok |-> TRUE, path |-> path]
       ELSE unique_loop(exists, author, filename, extension)

(***************************************************************************)
(* src/src/core/models.py                                                  *)
(***************************************************************************)
Unknown == <<"U", "n", "k", "n", "o", "w", "n">>
UntitledTopic == <<"U", "n", "t", "i", "t", "l", "e", "d">>
TopicMaxLength == 100

\* VideoMeta(video_id, url, title, channel, upload_date) with __post_init__; the
\* titles of the model carry no "EP 12:" prefix and no channel name
VideoMeta(video_id, channel, title, upload_date) ==
    [video_id |-> video_id,
     selected |-> TRUE,
     proposed_author |-> IF channel = <<>> THEN Unknown ELSE channel,
     proposed_topic |->
        LET t == Take(Strip(title, SpaceChars), TopicMaxLength)
        IN IF t = <<>> THEN UntitledTopic ELSE t,
     proposed_year |-> IF Len(upload_date) >= 4 THEN Take(upload_date, 4) ELSE Unknown,
     transcript |-> <<>>]

\* ProcessResult(video_id, url, status) with the defaults of message and files
ProcessResult(video_id, status) ==
    [video_id |-> video_id, status |-> status, message |-> "", files |-> <<>>]

\* BatchState.reset
reset ==
    /\ phase' = "input"
    /\ pending_videos' = <<>>
    /\ results' = <<>>

\* BatchState.to_review
to_review(videos) ==
    /\ pending_videos' = videos
    /\ phase' = "review"
    /\ UNCHANGED results

\* BatchState.to_processing
to_processing ==
    /\ phase' = "processing"
    /\ results' = <<>>
    /\ UNCHANGED pending_videos

\* BatchState.to_complete
to_complete(new_results) ==
    /\ results' = new_results
    /\ phase' = "complete"
    /\ UNCHANGED pending_videos

(***************************************************************************)
(* The remote source, as the workflow sees it.                             *)
(***************************************************************************)
Date2024 == <<"2", "0", "2", "4", "0", "1", "1", "5">>

\* what fetch_metadata builds for the video at place i of the list of URLs: the
\* videos at odd places share channel, title and year (a re-upload)
FetchedMeta(i) ==
    IF i % 2 = 1 THEN VideoMeta(i, TextX, TextY, Date2024)
    ELSE VideoMeta(i, TextAB, TextTalk, Date2024)

\* the entries parse_vtt_transcript returns for a subtitle file that exists
SampleTranscript == <<[timestamp |-> "[00:05]", text |-> "hello"]>>

ExtMd == <<"m", "d">>
ExtDocx == <<"d", "o", "c", "x">>
ExtJson == <<"j", "s", "o", "n">>

\* the lists the callers of BatchState hand to to_review and to_complete
VideoLists ==
    UNION {{[i \in 1..n |-> [FetchedMeta(i) EXCEPT !.selected = sel[i]]] :
              sel \in [1..n -> BOOLEAN]} : n \in 0..MaxItems}
ResultLists ==
    UNION {{[i \in 1..n |-> ProcessResult(i, st[i])] :
              st \in [1..n -> {"success", "error"}]} : n \in 0..MaxItems}

(***************************************************************************)
(* The output directory tree: fs maps each existing file to the video      *)
(* whose content it holds (0: a file of an earlier run), dirs holds the    *)
(* author folders.                                                         *)
(***************************************************************************)
\* path.write_text(...) and doc.save(path): create or overwrite
WriteFile(f, path, content) ==
    [p \in DOMAIN f \cup {path} |-> IF p = path THEN content ELSE f[p]]

\* what one item's fetch and writes can do: the subtitle file arrives ("ok"), the
\* source gives none ("novtt": yt-dlp fails, no file is left), or a step raises
Outcomes ==
    {"ok", "novtt", "fetch_raises", "mkdir_raises", "md_raises", "docx_raises", "json_raises"}

\* fetch_transcript, when subprocess.run returns: the parsed file, [] without one
fetch_transcript(video, outcome) ==
    [video EXCEPT !.transcript = IF outcome = "novtt" THEN <<>> ELSE SampleTranscript]

(***************************************************************************)
(* src/yt_transcriber_ui.py                                                *)
(***************************************************************************)
FILENAME_MAX_LENGTH == 50
BATCH_MAX_SIZE == 10

NoRun == [active |-> FALSE, videos |-> <<>>, i |-> 0, results |-> <<>>]

\* reset_state
reset_state ==
    /\ ss_phase' = "input"
    /\ ss_pending_videos' = <<>>
    /\ ss_results' = <<>>

\* process_and_save_video: the video as fetch_transcript leaves it, the tree after
\* the writes, and the ProcessResult returned
process_and_save_video(video, f, d, outcome) ==
    LET result == ProcessResult(video.video_id, "error")
        except(v, f1, d1, e) ==
            [video |-> v, fs |-> f1, dirs |-> d1, result |-> [result EXCEPT !.message = e]]
    IN IF outcome = "fetch_raises" THEN except(video, f, d, "fetch_transcript")
       ELSE
         LET v == fetch_transcript(video, outcome)
             filename == build_filename(v.proposed_author, v.proposed_topic,
                                        v.proposed_year, FILENAME_MAX_LENGTH)
             md_path == build_output_path(v.proposed_author, filename, ExtMd)
             docx_path == build_output_path(v.proposed_author, filename, ExtDocx)
             json_path == build_output_path(v.proposed_author, filename, ExtJson)
             d1 == d \cup {md_path.dir}
             f1 == WriteFile(f, md_path, v.video_id)
             f2 == WriteFile(f1, docx_path, v.video_id)
             f3 == WriteFile(f2, json_path, v.video_id)
         IN IF outcome = "mkdir_raises" THEN except(v, f, d, "mkdir")
            ELSE IF outcome = "md_raises" THEN except(v, f, d1, "write_markdown")
            ELSE IF outcome = "docx_raises" THEN except(v, f1, d1, "write_docx")
            ELSE IF outcome = "json_raises" THEN except(v, f2, d1, "write_json")
            ELSE [video |-> v, fs |-> f3, dirs |-> d1,
                  result |-> [result EXCEPT !.status = "success",
                                            !.message = "Saved",
                                            !.files = <<md_path, docx_path, json_path>>]]

\* the places of the true entries of a sequence of booleans, in order
RECURSIVE Places(_, _)
Places(flags, from) ==
    IF from > Len(flags) THEN <<>>
    ELSE (IF flags[from] THEN <<from>> ELSE <<>>) \o Places(flags, from + 1)

\* render_input_phase with n URLs in the text area: kinds[i] tells whether URL i is
\* no YouTube URL ("invalid"), has no metadata ("unfetchable") or is fetched ("ok")
render_input_phase(n, kinds) ==
    LET valid_urls == Take(Places([i \in 1..n |-> kinds[i] # "invalid"], 1), BATCH_MAX_SIZE)
        fetch_btn == valid_urls # <<>>
        fetched == SelectSeq(valid_urls, LAMBDA i : kinds[i] = "ok")
        videos == [k \in 1..Len(fetched) |-> FetchedMeta(fetched[k])]
    IN /\ ss_phase = "input"
       /\ given + n <= MaxItems
       /\ given' = given + n
       /\ IF fetch_btn /\ videos # <<>>
          THEN /\ ss_pending_videos' = videos
               /\ ss_phase' = "review"
          ELSE UNCHANGED <<ss_pending_videos, ss_phase>>
       /\ UNCHANGED <<ss_results, run, fs, dirs>>

\* a row of the edited table: the checkbox, and whether the reviewer has typed
\* the naming X / Y / 2024 over the row's own
EditedRows(n) == [1..n -> [Select : BOOLEAN, retyped : BOOLEAN]]

\* render_review_phase: the table's rows are stored, then the clicked button acts
render_review_phase(rows, clicked) ==
    LET videos == [i \in 1..Len(ss_pending_videos) |->
                     [ss_pending_videos[i] EXCEPT
                        !.selected = rows[i].Select,
                        !.proposed_author = IF rows[i].retyped THEN TextX ELSE @,
                        !.proposed_topic = IF rows[i].retyped THEN TextY ELSE @,
                        !.proposed_year = IF rows[i].retyped THEN Text2024 ELSE @]]
        selected_count == Cardinality({i \in 1..Len(videos) : videos[i].selected})
        back_btn == clicked = "back"
        \* disabled=selected_count == 0: a disabled button takes no click
        save_btn == clicked = "save" /\ selected_count # 0
    IN /\ ss_phase = "review"
       /\ IF back_btn THEN reset_state
          ELSE /\ ss_pending_videos' = videos
               /\ ss_phase' = IF save_btn THEN "processing" ELSE ss_phase
               /\ UNCHANGED ss_results
       /\ UNCHANGED <<run, fs, dirs, given>>

\* render_processing_phase up to its loop: the selected videos, no results yet
processing_begin ==
    /\ ss_phase = "processing"
    /\ ~run.active
    /\ run' = [active |-> TRUE,
               videos |-> Places([i \in 1..Len(ss_pending_videos) |->
                                    ss_pending_videos[i].selected], 1),
               i |-> 0,
               results |-> <<>>]
    /\ UNCHANGED <<ss_phase, ss_pending_videos, ss_results, fs, dirs, given>>

\* processing_step with the result of a failed item left out of the list
processing_step_drops_errors(outcome) ==
    /\ run.active
    /\ run.i < Len(run.videos)
    /\ LET at == run.videos[run.i + 1]
           r == process_and_save_video(ss_pending_videos[at], fs, dirs, outcome)
       IN /\ ss_pending_videos' = [ss_pending_videos EXCEPT ![at] = r.video]
          /\ fs' = r.fs
          /\ dirs' = r.dirs
          /\ run' = [run EXCEPT !.i = @ + 1,
                                !.results = IF r.result.status = "error"
                                            THEN @ ELSE Append(@, r.result)]
    /\ UNCHANGED <<ss_phase, ss_results, given>>

\* one turn of the loop of render_processing_phase
processing_step(outcome) ==
    /\ run.active
    /\ run.i < Len(run.videos)
    /\ LET at == run.videos[run.i + 1]
           r == process_and_save_video(ss_pending_videos[at], fs, dirs, outcome)
       IN /\ ss_pending_videos' = [ss_pending_videos EXCEPT ![at] = r.video]
          /\ fs' = r.fs
          /\ dirs' = r.dirs
          /\ run' = [run EXCEPT !.i = @ + 1, !.results = Append(@, r.result)]
    /\ UNCHANGED <<ss_phase, ss_results, given>>

\* processing_end taken as soon as one item is done
processing_end_early ==
    /\ run.active
    /\ run.i >= 1
    /\ ss_results' = run.results
    /\ ss_phase' = "complete"
    /\ run' = NoRun
    /\ UNCHANGED <<ss_pending_videos, fs, dirs, given>>

\* render_processing_phase after its loop
processing_end ==
    /\ run.active
    /\ run.i = Len(run.videos)
    /\ ss_results' = run.results
    /\ ss_phase' = "complete"
    /\ run' = NoRun
    /\ UNCHANGED <<ss_pending_videos, fs, dirs, given>>

\* the script run is stopped inside the loop: its locals are gone, the session
\* state and the files stay as they are
processing_abort ==
    /\ run.active
    /\ run' = NoRun
    /\ UNCHANGED <<ss_phase, ss_pending_videos, ss_results, fs, dirs, given>>

\* render_complete_phase with "Process New Batch" clicked
render_complete_phase ==
    /\ ss_phase = "complete"
    /\ reset_state
    /\ UNCHANGED <<run, fs, dirs, given>>

(***************************************************************************)
(* src/cli.py                                                              *)
(***************************************************************************)
filename_max_length == 50

\* --author, --topic, --year; <<>> stands for an option that is not given
OverrideChoices ==
    {[author |-> <<>>, topic |-> <<>>, year |-> <<>>],
     [author |-> TextB, topic |-> <<>>, year |-> <<>>],
     [author |-> TextB, topic |-> TextT, year |-> Text1999]}
NoOverrides == [author |-> <<>>, topic |-> <<>>, year |-> <<>>]

\* the command line's URLs: each a YouTube URL ("ok") or not ("invalid")
CliUrlLists == UNION {[1..n -> {"ok", "invalid"}] : n \in 0..MaxItems}

CliOutcomes == {"nometa", "meta_raises"} \cup Outcomes

CliStart ==
    [pc |-> "start", urls |-> <<>>, args |-> NoOverrides, warned |-> FALSE, i |-> 0,
     success_count |-> 0, fail_count |-> 0, exit_code |-> -1]

\* process_single for the URL at place i: ret is "True", "False" or "raise" (an
\* exception leaves the function), with the tree as the call leaves it
process_single(i, kind, overrides, f, d, outcome) ==
    LET leave(r, f1, d1) == [ret |-> r, fs |-> f1, dirs |-> d1]
    IN IF kind = "invalid" THEN leave("False", f, d)
       ELSE IF outcome = "nometa" THEN leave("False", f, d)
       ELSE IF outcome = "meta_raises" THEN leave("raise", f, d)
       ELSE
         LET v0 == FetchedMeta(i)
             v1 == [v0 EXCEPT
                      !.proposed_author = IF overrides.author # <<>> THEN overrides.author ELSE @,
                      !.proposed_topic = IF overrides.topic # <<>> THEN overrides.topic ELSE @,
                      !.proposed_year = IF overrides.year # <<>> THEN overrides.year ELSE @]
         IN IF outcome = "fetch_raises" THEN leave("raise", f, d)
            ELSE
              LET video == fetch_transcript(v1, outcome)
                  filename == build_filename(video.proposed_author, video.proposed_topic,
                                             video.proposed_year, filename_max_length)
                  md_path == build_output_path(video.proposed_author, filename, ExtMd)
                  docx_path == build_output_path(video.proposed_author, filename, ExtDocx)
                  json_path == build_output_path(video.proposed_author, filename, ExtJson)
                  d1 == d \cup {md_path.dir}
                  f1 == WriteFile(f, md_path, video.video_id)
                  f2 == WriteFile(f1, docx_path, video.video_id)
                  f3 == WriteFile(f2, json_path, video.video_id)
              IN IF outcome = "mkdir_raises" THEN leave("raise", f, d)
                 ELSE IF outcome = "md_raises" THEN leave("raise", f, d1)
                 ELSE IF outcome = "docx_raises" THEN leave("raise", f1, d1)
                 ELSE IF outcome = "json_raises" THEN leave("raise", f2, d1)
                 ELSE leave("True", f3, d1)

\* main up to its loop
cli_main(urls, args) ==
    /\ cli.pc = "start"
    /\ cli' = IF urls = <<>>
              THEN [cli EXCEPT !.pc = "exited", !.exit_code = 1]
              ELSE [cli EXCEPT
                      !.pc = "loop", !.urls = urls, !.args = args,
                      !.warned = Len(urls) > 1
                                   /\ (args.author # <<>> \/ args.topic # <<>> \/ args.year # <<>>)]
    /\ UNCHANGED <<fs, dirs>>

\* a loop that hands the options to every item
cli_loop_applies_overrides(outcome) ==
    /\ cli.pc = "loop"
    /\ cli.i < Len(cli.urls)
    /\ LET url == cli.i + 1
           overrides == cli.args
           r == process_single(url, cli.urls[url], overrides, fs, dirs, outcome)
       IN /\ fs' = r.fs
          /\ dirs' = r.dirs
          /\ cli' = IF r.ret = "raise"
                    \* the exception leaves main: a traceback, no summary
                    THEN [cli EXCEPT !.pc = "crashed", !.exit_code = 1]
                    ELSE IF r.ret = "True"
                    THEN [cli EXCEPT !.i = @ + 1, !.success_count = @ + 1]
                    ELSE [cli EXCEPT !.i = @ + 1, !.fail_count = @ + 1]

\* one turn of the loop of main
cli_loop(outcome) ==
    /\ cli.pc = "loop"
    /\ cli.i < Len(cli.urls)
    /\ LET url == cli.i + 1
           overrides == IF Len(cli.urls) = 1 THEN cli.args ELSE NoOverrides
           r == process_single(url, cli.urls[url], overrides, fs, dirs, outcome)
       IN /\ fs' = r.fs
          /\ dirs' = r.dirs
          /\ cli' = IF r.ret = "raise"
                    \* the exception leaves main: a traceback, no summary
                    THEN [cli EXCEPT !.pc = "crashed", !.exit_code = 1]
                    ELSE IF r.ret = "True"
                    THEN [cli EXCEPT !.i = @ + 1, !.success_count = @ + 1]
                    ELSE [cli EXCEPT !.i = @ + 1, !.fail_count = @ + 1]

\* main after its loop
cli_summary ==
    /\ cli.pc = "loop"
    /\ cli.i = Len(cli.urls)
    /\ cli' = [cli EXCEPT !.pc = "exited",
                          !.exit_code = IF cli.fail_count = 0 THEN 0 ELSE 1]
    /\ UNCHANGED <<fs, dirs>>

(***************************************************************************)
(* Callers of generate_unique_filename: each asks for a path and then      *)
(* writes its file there.                                                  *)
(***************************************************************************)
Workers == 1..NumWorkers

\* wrote: the path of the worker's last write (<<>>: none yet)
Idle == [pc |-> "idle", calls |-> 0, wrote |-> <<>>]

RECURSIVE CallsUpTo(_, _)
CallsUpTo(u, w) == IF w = 0 THEN 0 ELSE u[w].calls + CallsUpTo(u, w - 1)

\* the naming fields and extensions the callers pass
NamingChoices ==
    {[author |-> TextX, topic |-> TextY, year |-> Text2024],
     [author |-> TextAB, topic |-> TextTalk, year |-> Text2024]}
ExtensionChoices == {ExtMd, <<".">> \o ExtMd, ExtJson}

\* unique_call that creates the file at the path it returns, within the call
unique_call_reserving(w, nf, extension) ==
    LET r == generate_unique_filename(DOMAIN fs, nf.author, nf.topic, nf.year, extension)
    IN /\ uniq[w].pc = "idle"
       /\ CallsUpTo(uniq, NumWorkers) < MaxCalls
       /\ uniq' = [uniq EXCEPT ![w] =
                     [pc |-> "returned",
                      calls |-> uniq[w].calls + 1,
                      args |-> [author |-> nf.author, topic |-> nf.topic, year |-> nf.year,
                                extension |-> extension],
                      exists |-> DOMAIN fs,
                      result |-> r]]
       /\ dirs' = dirs \cup {output_dir(nf.author)}
       /\ fs' = IF r.ok THEN WriteFile(fs, r.path, w) ELSE fs

\* worker w calls generate_unique_filename; the directory is made on the way
unique_call(w, nf, extension) ==
    /\ uniq[w].pc = "idle"
    /\ CallsUpTo(uniq, NumWorkers) < MaxCalls
    /\ uniq' = [uniq EXCEPT ![w] =
                  [pc |-> "returned",
                   calls |-> uniq[w].calls + 1,
                   args |-> [author |-> nf.author, topic |-> nf.topic, year |-> nf.year,
                             extension |-> extension],
                   exists |-> DOMAIN fs,
                   result |-> generate_unique_filename(DOMAIN fs, nf.author, nf.topic,
                                                       nf.year, extension)]]
    /\ dirs' = dirs \cup {output_dir(nf.author)}
    /\ UNCHANGED fs

\* worker w writes its file to the path it was given (none after the ValueError)
unique_write(w) ==
    /\ uniq[w].pc = "returned"
    /\ fs' = IF uniq[w].result.ok THEN WriteFile(fs, uniq[w].result.path, w) ELSE fs
    /\ uniq' = [uniq EXCEPT ![w] =
                  [pc |-> "idle", calls |-> uniq[w].calls,
                   wrote |-> IF uniq[w].result.ok THEN uniq[w].result.path ELSE <<>>]]
    /\ UNCHANGED dirs

(***************************************************************************)
(* src/src/core/downloader.py: the subtitle file parser                    *)
(***************************************************************************)
\* the characters str.strip() removes, of those the model's lines hold
VttSpace == {" ", "\t"}
DigitChars == {Digits[d] : d \in 1..10}

\* s[n:]
Drop(s, n) == SubSeq(s, n + 1, Len(s))

\* s.startswith(prefix)
StartsWith(s, prefix) == Len(s) >= Len(prefix) /\ SubSeq(s, 1, Len(prefix)) = prefix

\* sub in s
Contains(s, sub) ==
    \E i \in 1..(Len(s) - Len(sub) + 1) : SubSeq(s, i, i + Len(sub) - 1) = sub

\* s.isdigit()
isdigit(s) == s # <<>> /\ \A i \in 1..Len(s) : s[i] \in DigitChars

RECURSIVE DigitsLen(_)
\* the length of the match of \d* at the start of s
DigitsLen(s) == IF s # <<>> /\ Head(s) \in DigitChars THEN 1 + DigitsLen(Tail(s)) ELSE 0

RECURSIVE int(_)
\* int(s) of a string of digits
int(s) ==
    IF s = <<>> THEN 0
    ELSE 10 * int(SubSeq(s, 1, Len(s) - 1))
           + (CHOOSE d \in 0..9 : Digits[d + 1] = s[Len(s)])

\* f"{n:02d}"
Pad2(n) == IF n < 10 THEN <<"0">> \o NatToStr(n) ELSE NatToStr(n)

\* format_timestamp, of whole seconds
format_timestamp(seconds) ==
    LET total_secs == seconds
        m == total_secs \div 60
        sec == total_secs % 60
    IN <<"[">> \o Pad2(m) \o <<":">> \o Pad2(sec) \o <<"]">>

\* re.match(r'(\d+):(\d+):(\d+)\.(\d+)', line): the three first groups, if the
\* start of the line matches
time_match(line) ==
    LET n1 == DigitsLen(line)
        r1 == Drop(line, n1)
        n2 == DigitsLen(Drop(r1, 1))
        r2 == Drop(r1, 1 + n2)
        n3 == DigitsLen(Drop(r2, 1))
        r3 == Drop(r2, 1 + n3)
        n4 == DigitsLen(Drop(r3, 1))
    IN IF /\ n1 > 0 /\ r1 # <<>> /\ Head(r1) = ":"
          /\ n2 > 0 /\ r2 # <<>> /\ Head(r2) = ":"
          /\ n3 > 0 /\ r3 # <<>> /\ Head(r3) = "."
          /\ n4 > 0
       THEN [ok |-> TRUE,
             h |-> int(SubSeq(line, 1, n1)),
             m |-> int(SubSeq(r1, 2, 1 + n2)),
             s |-> int(SubSeq(r2, 2, 1 + n3))]
       ELSE [ok |-> FALSE]

RECURSIVE strip_tags(_)
\* re.sub(r'<[^>]+>', '', line): from a "<" that is followed by a character
\* other than ">" and, later, by a ">", all is removed up to the first such ">"
strip_tags(s) ==
    IF s = <<>> THEN <<>>
    ELSE IF Head(s) = "<" /\ Len(s) >= 3 /\ s[2] # ">" /\ \E j \in 3..Len(s) : s[j] = ">"
    THEN LET j == CHOOSE k \in 3..Len(s) :
                    s[k] = ">" /\ \A b \in 3..(k - 1) : s[b] # ">"
         IN strip_tags(Drop(s, j))
    ELSE <<Head(s)>> \o strip_tags(Tail(s))

WEBVTT == <<"W", "E", "B", "V", "T", "T">>
KindColon == <<"K", "i", "n", "d", ":">>
LanguageColon == <<"L", "a", "n", "g", "u", "a", "g", "e", ":">>
Arrow == <<"-", "-", ">">>

\* current_time = None
None == -1
SentinelTimestamp == <<"[", "0", "0", ":", "0", "0", "]">>

TranscriptEntry(timestamp, text) == [timestamp |-> timestamp, text |-> text]

RECURSIVE parse_lines_forgets(_, _, _, _)
\* parse_lines that adds no text to seen_text
parse_lines_forgets(lines, entries, current_time, seen_text) ==
    IF lines = <<>> THEN entries
    ELSE
      LET line == Strip(Head(lines), VttSpace)
          rest == Tail(lines)
      IN IF \/ line = <<>>
            \/ StartsWith(line, WEBVTT) \/ StartsWith(line, KindColon)
            \/ StartsWith(line, LanguageColon)
            \/ isdigit(line)
         THEN parse_lines_forgets(rest, entries, current_time, seen_text)
         ELSE IF Contains(line, Arrow)
         THEN LET t == time_match(line)
              IN parse_lines_forgets(rest, entries,
                                     IF t.ok THEN t.h * 3600 + t.m * 60 + t.s
                                     ELSE current_time,
                                     seen_text)
         ELSE LET clean == strip_tags(line)
              IN IF clean # <<>> /\ clean \notin seen_text
                 THEN parse_lines_forgets(
                        rest,
                        Append(entries,
                               TranscriptEntry(IF current_time # None
                                               THEN format_timestamp(current_time)
                                               ELSE SentinelTimestamp,
                                               clean)),
                        current_time, seen_text)
                 ELSE parse_lines_forgets(rest, entries, current_time, seen_text)

RECURSIVE parse_lines(_, _, _, _)
\* the for loop of parse_vtt_transcript over the lines still to read
parse_lines(lines, entries, current_time, seen_text) ==
    IF lines = <<>> THEN entries
    ELSE
      LET line == Strip(Head(lines), VttSpace)
          rest == Tail(lines)
      IN IF \/ line = <<>>
            \/ StartsWith(line, WEBVTT) \/ StartsWith(line, KindColon)
            \/ StartsWith(line, LanguageColon)
            \/ isdigit(line)
         THEN parse_lines(rest, entries, current_time, seen_text)
         ELSE IF Contains(line, Arrow)
         THEN LET t == time_match(line)
              IN parse_lines(rest, entries,
                             IF t.ok THEN t.h * 3600 + t.m * 60 + t.s ELSE current_time,
                             seen_text)
         ELSE LET clean == strip_tags(line)
              IN IF clean # <<>> /\ clean \notin seen_text
                 THEN parse_lines(
                        rest,
                        Append(entries,
                               TranscriptEntry(IF current_time # None
                                               THEN format_timestamp(current_time)
                                               ELSE SentinelTimestamp,
                                               clean)),
                        current_time, seen_text \cup {clean})
                 ELSE parse_lines(rest, entries, current_time, seen_text)

\* parse_vtt_transcript of a file that exists, given as its lines (split('\n'))
parse_vtt_transcript(lines) == parse_lines(lines, <<>>, None, {})

\* the lines of the subtitle files the parser is called on
MaxLines == 3
LineHeader == <<"W", "E", "B", "V", "T", "T">>
LineNumber == <<"7">>
LineBlank == <<" ", " ">>
StartH5 == <<"0", "0", ":", "0", "0", ":", "0", "5", ".", "5", "2", "0">>
StartH65 == <<"0", "0", ":", "0", "1", ":", "0", "5", ".", "0", "0", "0">>
StartM65 == <<"0", "1", ":", "0", "5", ".", "0", "0", "0">>
\* 00:00:05.520 --> 00:00:05.520, 00:01:05.000 --> ..., and 01:05.000 --> ...
LineTimingH5 == StartH5 \o <<" ">> \o Arrow \o <<" ">> \o StartH5
LineTimingH65 == StartH65 \o <<" ">> \o Arrow \o <<" ">> \o StartH65
LineTimingM65 == StartM65 \o <<" ">> \o Arrow \o <<" ">> \o StartM65
LineHi == <<"h", "i">>
LineCapHi == <<"H", "i">>
LineTagHi == <<"<", "c", ">", "h", "i", "<", "/", "c", ">">>
LineTagSpace == <<"<", "c", ">", " ", "<", "/", "c", ">">>
LineTagSpaceHi == <<"<", "c", ">", " ", "h", "i", "<", "/", "c", ">">>
LineTagNumber == <<"<", "c", ">", "4", "2", "<", "/", "c", ">">>
VttLineSamples ==
    {LineHeader, LineNumber, LineBlank, LineTimingH5, LineTimingH65, LineTimingM65,
     LineHi, LineCapHi, LineTagHi, LineTagSpace, LineTagSpaceHi, LineTagNumber}
VttFiles == UNION {[1..n -> VttLineSamples] : n \in 0..MaxLines}

\* the parser's entries written as a cue stream: for each entry a timing line
\* 00:MM:SS.000 --> 00:MM:SS.000 of its timestamp [MM:SS], then its text
RECURSIVE CueStream(_)
CueStream(entries) ==
    IF entries = <<>> THEN <<>>
    ELSE LET e == Head(entries)
             start == <<"0", "0", ":">> \o SubSeq(e.timestamp, 2, Len(e.timestamp) - 1)
                        \o <<".", "0", "0", "0">>
         IN <<start \o <<" ">> \o Arrow \o <<" ">> \o start, e.text>>
              \o CueStream(Tail(entries))

\* the texts and max lengths sanitize_for_filename is called on by itself
MaxText == 3
SanitizeChars == {"a", "-", " ", "_", "/", "."}
SanitizeTexts == UNION {[1..n -> SanitizeChars] : n \in 0..MaxText}
SanitizeMaxLengths == {0, 2, YearMaxLength, AuthorMaxLength}

(***************************************************************************)
(* src/src/core/writers.py: the paragraphs of the transcript section       *)
(***************************************************************************)
\* current_ts = None, last_timestamp = None: no timestamp, which no text equals
NoTimestamp == <<"None">>

RECURSIVE join(_)
\* ' '.join(para_lines)
join(para_lines) ==
    IF para_lines = <<>> THEN <<>>
    ELSE IF Len(para_lines) = 1 THEN Head(para_lines)
    ELSE Head(para_lines) \o <<" ">> \o join(Tail(para_lines))

\* f"**{current_ts}** {' '.join(para_lines)}\n"
md_paragraph(current_ts, para_lines) ==
    <<"*", "*">> \o current_ts \o <<"*", "*", " ">> \o join(para_lines) \o <<"\n">>

RECURSIVE md_loop_merges_all(_, _, _, _)
\* md_loop that starts no paragraph after the first
md_loop_merges_all(transcript, current_ts, para_lines, lines) ==
    IF transcript = <<>>
    THEN IF para_lines # <<>> THEN Append(lines, md_paragraph(current_ts, para_lines))
         ELSE lines
    ELSE LET entry == Head(transcript)
         IN md_loop_merges_all(Tail(transcript),
                               IF current_ts = NoTimestamp THEN entry.timestamp
                               ELSE current_ts,
                               Append(para_lines, entry.text), lines)

RECURSIVE md_loop(_, _, _, _)
\* the loop of write_markdown over the entries still to write, and its flush
md_loop(transcript, current_ts, para_lines, lines) ==
    IF transcript = <<>>
    THEN IF para_lines # <<>> THEN Append(lines, md_paragraph(current_ts, para_lines))
         ELSE lines
    ELSE LET entry == Head(transcript)
             ts == entry.timestamp
             text == entry.text
         IN IF ts # current_ts
            THEN md_loop(Tail(transcript), ts, <<text>>,
                         IF para_lines # <<>>
                         THEN Append(lines, md_paragraph(current_ts, para_lines))
                         ELSE lines)
            ELSE md_loop(Tail(transcript), current_ts, Append(para_lines, text), lines)

\* the lines write_markdown appends for a transcript that is not empty
markdown_paragraphs(transcript) == md_loop(transcript, NoTimestamp, <<>>, <<>>)

\* the runs of a paragraph of the document: the timestamp, if any, and the text
docx_paragraph(last_timestamp, current_para_lines) ==
    (IF last_timestamp # NoTimestamp /\ last_timestamp # <<>>
     THEN <<last_timestamp \o <<" ">>>> ELSE <<>>)
      \o <<join(current_para_lines)>>

RECURSIVE docx_loop(_, _, _, _)
\* the loop of write_docx over the entries still to write, and its flush
docx_loop(transcript, last_timestamp, current_para_lines, doc) ==
    IF transcript = <<>>
    THEN IF current_para_lines # <<>>
         THEN Append(doc, docx_paragraph(last_timestamp, current_para_lines))
         ELSE doc
    ELSE LET entry == Head(transcript)
             ts == entry.timestamp
             text == entry.text
         IN IF last_timestamp = NoTimestamp \/ ts # last_timestamp
            THEN docx_loop(Tail(transcript), ts, <<text>>,
                           IF current_para_lines # <<>>
                           THEN Append(doc, docx_paragraph(last_timestamp,
                                                           current_para_lines))
                           ELSE doc)
            ELSE docx_loop(Tail(transcript), last_timestamp,
                           Append(current_para_lines, text), doc)

\* the paragraphs write_docx adds for a transcript that is not empty
docx_paragraphs(transcript) == docx_loop(transcript, NoTimestamp, <<>>, <<>>)

\* the transcripts the writers are called on: entries of three timestamps (one
\* of them empty, as a dict entry without the key has it) and two texts
MaxEntries == 4
Stamp5 == <<"[", "0", "0", ":", "0", "5", "]">>
Stamp6 == <<"[", "0", "0", ":", "0", "6", "]">>
EntrySamples ==
    {TranscriptEntry(ts, text) : ts \in {Stamp5, Stamp6, <<>>},
                                 text \in {<<"h", "i">>, <<"y", "o">>}}
Transcripts == UNION {[1..n -> EntrySamples] : n \in 1..MaxEntries}

(***************************************************************************)
(* src/src/core/downloader.py: the links of a description                  *)
(***************************************************************************)
LinksMax == 20
ContextMaxLength == 100

\* the characters [^\s<>"] leaves out
UrlStop == {" ", "\t", "\n", "<", ">", "\""}

Http == <<"h", "t", "t", "p">>
ColonSlashSlash == <<":", "/", "/">>

RECURSIVE UrlCharsLen(_)
\* the length of the match of [^\s<>"]* at the start of s
UrlCharsLen(s) == IF s # <<>> /\ Head(s) \notin UrlStop THEN 1 + UrlCharsLen(Tail(s)) ELSE 0

\* the length of the match of https?://[^\s<>"]+ at the start of s, 0 for none
url_match(s) ==
    LET r == Drop(s, Len(Http))
        scheme == IF r # <<>> /\ Head(r) = "s" THEN Len(Http) + 1 ELSE Len(Http)
        body == Drop(s, scheme + Len(ColonSlashSlash))
    IN IF /\ StartsWith(s, Http)
          /\ StartsWith(Drop(s, scheme), ColonSlashSlash)
          /\ UrlCharsLen(body) > 0
       THEN scheme + Len(ColonSlashSlash) + UrlCharsLen(body)
       ELSE 0

RECURSIVE findall(_)
\* re.findall(url_pattern, line)
findall(line) ==
    IF line = <<>> THEN <<>>
    ELSE IF url_match(line) > 0
    THEN <<SubSeq(line, 1, url_match(line))>> \o findall(Drop(line, url_match(line)))
    ELSE findall(Tail(line))

RECURSIVE remove_urls(_)
\* re.sub(url_pattern, '', line)
remove_urls(line) ==
    IF line = <<>> THEN <<>>
    ELSE IF url_match(line) > 0 THEN remove_urls(Drop(line, url_match(line)))
    ELSE <<Head(line)>> \o remove_urls(Tail(line))

\* description.split('\n')
split_lines(description) ==
    LET nl == {i \in 1..Len(description) : description[i] = "\n"}
        \* the k-th newline; 0 and Len + 1 stand before the first and after the last line
        at(k) == IF k = 0 THEN 0
                 ELSE IF k > Cardinality(nl) THEN Len(description) + 1
                 ELSE CHOOSE i \in nl : Cardinality({j \in nl : j < i}) = k - 1
    IN [k \in 1..(Cardinality(nl) + 1) |-> SubSeq(description, at(k - 1) + 1, at(k) - 1)]

\* the links one line adds
line_links(line) ==
    LET urls == findall(line)
        context == Strip(remove_urls(line), VttSpace)
    IN [k \in 1..Len(urls) |-> [url |-> urls[k], context |-> Take(context, ContextMaxLength)]]

RECURSIVE links_of_lines(_)
links_of_lines(lines) ==
    IF lines = <<>> THEN <<>> ELSE line_links(Head(lines)) \o links_of_lines(Tail(lines))

\* extract_links_from_description without the limit
extract_links_unlimited(description) ==
    IF description = <<>> THEN <<>>
    ELSE links_of_lines(split_lines(description))

\* extract_links_from_description
extract_links_from_description(description) ==
    IF description = <<>> THEN <<>>
    ELSE Take(links_of_lines(split_lines(description)), LinksMax)

\* the descriptions the links are extracted from: lines with the URLs listed
Url(n) == Http \o ColonSlashSlash \o NatToStr(n)
Urls(from, n) == [k \in 1..n |-> Url(from + k - 1)]
MaxDescLines == 3
DescLineSamples ==
    {[text |-> <<>>, urls |-> <<>>],
     [text |-> <<"s", "e", "e", " ", ":", "/", "/", " ", "h", "t", "t", "p">>, urls |-> <<>>],
     [text |-> <<"a", " ">> \o Url(1) \o <<" ", "b">>, urls |-> Urls(1, 1)],
     \* <https://2>"http://3"
     [text |-> <<"<", "h", "t", "t", "p", "s", ":", "/", "/", "2", ">", "\"">> \o Url(3)
                 \o <<"\"">>,
      urls |-> <<<<"h", "t", "t", "p", "s", ":", "/", "/", "2">>, Url(3)>>],
     [text |-> join(Urls(10, 10)), urls |-> Urls(10, 10)],
     [text |-> join(Urls(20, 11)), urls |-> Urls(20, 11)]}
DescLineLists == UNION {[1..n -> DescLineSamples] : n \in 0..MaxDescLines}

RECURSIVE join_lines(_)
\* the description with these lines
join_lines(lines) ==
    IF lines = <<>> THEN <<>>
    ELSE IF Len(lines) = 1 THEN Head(lines).text
    ELSE Head(lines).text \o <<"\n">> \o join_lines(Tail(lines))

(***************************************************************************)
(* Initial states and specifications.                                      *)
(***************************************************************************)
\* the j-th name collision resolution tries for the fields nf: the composed
\* filename for j = 1, the filename with _j appended for j >= 2
NumberedPath(nf, extension, j) ==
    LET filename == build_filename(nf.author, nf.topic, nf.year, DefaultMaxLength)
    IN [dir |-> sanitized(nf.author, FolderMaxLength),
        name |-> IF j = 1 THEN filename ELSE filename \o <<"_">> \o NatToStr(j),
        ext |-> IF Head(extension) = "." THEN Tail(extension) ELSE extension]

NamingXY == [author |-> TextX, topic |-> TextY, year |-> Text2024]

\* a tree left by earlier runs: the files X/X_Y_2024[_j].md for the j of S
TreeOf(S) == [p \in {NumberedPath(NamingXY, ExtMd, j) : j \in S} |-> 0]

DirsOf(f) == {p.dir : p \in DOMAIN f}

\* the trees the workflow starts on: empty, or with one transcript saved before
EarlierRuns == {TreeOf({}), TreeOf({1})}

\* the trees collision resolution is tried on: the first k names taken, for k
\* around 0 and around the safety limit, and trees with free names in between
TakenNames ==
    {1..k : k \in {0, 1, 2, SafetyLimit - 1, SafetyLimit, SafetyLimit + 1}}
      \cup {{1, 3}, {2}, (1..SafetyLimit) \ {50}}

InitMachines ==
    /\ phase = "input"
    /\ pending_videos = <<>>
    /\ results = <<>>
    /\ ss_phase = "input"
    /\ ss_pending_videos = <<>>
    /\ ss_results = <<>>
    /\ run = NoRun
    /\ given = 0
    /\ cli = CliStart
    /\ uniq = [w \in Workers |-> Idle]

\* no pure function is being called
NoCall == [fn |-> "none"]

Init ==
    /\ InitMachines
    /\ fs \in EarlierRuns
    /\ dirs = DirsOf(fs)
    /\ call = NoCall

InitNaming ==
    /\ InitMachines
    /\ fs \in {TreeOf(S) : S \in TakenNames}
    /\ dirs = DirsOf(fs)
    /\ call = NoCall

ui_vars == <<ss_phase, ss_pending_videos, ss_results, run, given>>
batch_vars == <<phase, pending_videos, results>>

\* the calls of the methods of a BatchState object
CallReset == reset /\ UNCHANGED <<ui_vars, fs, dirs, cli, uniq, call>>
CallToReview ==
    /\ \E videos \in VideoLists : to_review(videos)
    /\ UNCHANGED <<ui_vars, fs, dirs, cli, uniq, call>>
CallToProcessing == to_processing /\ UNCHANGED <<ui_vars, fs, dirs, cli, uniq, call>>
CallToComplete ==
    /\ \E new_results \in ResultLists : to_complete(new_results)
    /\ UNCHANGED <<ui_vars, fs, dirs, cli, uniq, call>>

NextBatch == CallReset \/ CallToReview \/ CallToProcessing \/ CallToComplete

\* the script runs of the Streamlit session, one per phase main routes to
RunInput ==
    /\ \E n \in 1..MaxItems :
         \E kinds \in [1..n -> {"ok", "invalid", "unfetchable"}] :
           render_input_phase(n, kinds)
    /\ UNCHANGED <<batch_vars, cli, uniq, call>>
RunReview ==
    /\ \E rows \in EditedRows(Len(ss_pending_videos)) :
         \E clicked \in {"none", "back", "save"} : render_review_phase(rows, clicked)
    /\ UNCHANGED <<batch_vars, cli, uniq, call>>
RunProcessingBegin == processing_begin /\ UNCHANGED <<batch_vars, cli, uniq, call>>
RunProcessingStep ==
    /\ \E outcome \in Outcomes : processing_step(outcome)
    /\ UNCHANGED <<batch_vars, cli, uniq, call>>
RunProcessingEnd == processing_end /\ UNCHANGED <<batch_vars, cli, uniq, call>>
RunProcessingAbort == processing_abort /\ UNCHANGED <<batch_vars, cli, uniq, call>>
RunComplete == render_complete_phase /\ UNCHANGED <<batch_vars, cli, uniq, call>>

NextUI ==
    \/ RunInput
    \/ RunReview
    \/ RunProcessingBegin
    \/ RunProcessingStep
    \/ RunProcessingEnd
    \/ RunComplete

NextUIAbort == NextUI \/ RunProcessingAbort

\* one run of the command line
CliMain ==
    /\ \E urls \in CliUrlLists : \E args \in OverrideChoices : cli_main(urls, args)
    /\ UNCHANGED <<batch_vars, ui_vars, uniq, call>>
CliLoop ==
    /\ \E outcome \in CliOutcomes : cli_loop(outcome)
    /\ UNCHANGED <<batch_vars, ui_vars, uniq, call>>
CliSummary == cli_summary /\ UNCHANGED <<batch_vars, ui_vars, uniq, call>>

NextCli == CliMain \/ CliLoop \/ CliSummary

\* the callers of generate_unique_filename
UniqueCall ==
    /\ \E w \in Workers : \E nf \in NamingChoices : \E extension \in ExtensionChoices :
         unique_call(w, nf, extension)
    /\ UNCHANGED <<batch_vars, ui_vars, cli, call>>
UniqueWrite ==
    /\ \E w \in Workers : unique_write(w)
    /\ UNCHANGED <<batch_vars, ui_vars, cli, call>>

NextNaming == UniqueCall \/ UniqueWrite

Next == NextBatch \/ NextUIAbort \/ NextCli \/ NextNaming

\* the whole program; its four parts share no state but the tree, and each is
\* checked under its own specification below
Spec == Init /\ [][Next]_vars

\* a BatchState object under any sequence of calls of its methods
SpecBatch == Init /\ [][NextBatch]_vars

\* the Streamlit session whose script runs are left to finish
SpecUI == Init /\ [][NextUI]_vars

\* the same: st.rerun() starts the processing run, and the loop and its end
\* follow without a user action
SpecUIFair ==
    /\ Init
    /\ [][NextUI]_vars
    /\ WF_vars(RunProcessingBegin)
    /\ WF_vars(RunProcessingStep)
    /\ WF_vars(RunProcessingEnd)

\* the Streamlit session whose processing run may be stopped in its loop
SpecUIAbort == Init /\ [][NextUIAbort]_vars

\* one run of the command line
SpecCli == Init /\ [][NextCli]_vars

\* callers of generate_unique_filename on trees with names taken
SpecNaming == InitNaming /\ [][NextNaming]_vars

\* a call of parse_vtt_transcript, and a second one on its result written back
InitParse ==
    /\ InitMachines
    /\ fs = TreeOf({})
    /\ dirs = {}
    /\ call \in {[fn |-> "parse_vtt_transcript", pc |-> "called", lines |-> f,
                  entries |-> <<>>, again |-> <<>>] : f \in VttFiles}

machine_vars == <<batch_vars, ui_vars, fs, dirs, cli, uniq>>

ParseVtt ==
    /\ call.fn = "parse_vtt_transcript"
    /\ call.pc = "called"
    /\ call' = [call EXCEPT !.pc = "returned",
                            !.entries = parse_vtt_transcript(call.lines)]
    /\ UNCHANGED machine_vars
ParseAgain ==
    /\ call.fn = "parse_vtt_transcript"
    /\ call.pc = "returned"
    /\ call' = [call EXCEPT !.pc = "reparsed",
                            !.again = parse_vtt_transcript(CueStream(call.entries))]
    /\ UNCHANGED machine_vars

NextParse == ParseVtt \/ ParseAgain

SpecParse == InitParse /\ [][NextParse]_vars

\* a call of sanitize_for_filename, and a second one on its result; or a call of
\* build_filename
InitSanitize ==
    /\ InitMachines
    /\ fs = TreeOf({})
    /\ dirs = {}
    /\ call \in {[fn |-> "sanitize_for_filename", pc |-> "called", text |-> t,
                  max_length |-> n, clean |-> <<>>, again |-> <<>>] :
                   t \in SanitizeTexts, n \in SanitizeMaxLengths}
               \cup
                 {[fn |-> "build_filename", pc |-> "called", author |-> a, topic |-> t,
                   year |-> y, max_length |-> n, filename |-> <<>>] :
                   a \in BuildTexts, t \in BuildTexts, y \in BuildTexts,
                   n \in BuildMaxLengths}

Sanitize ==
    /\ call.fn = "sanitize_for_filename"
    /\ call.pc = "called"
    /\ call' = [call EXCEPT !.pc = "returned",
                            !.clean = sanitize_for_filename(call.text, call.max_length)]
    /\ UNCHANGED machine_vars
SanitizeAgain ==
    /\ call.fn = "sanitize_for_filename"
    /\ call.pc = "returned"
    /\ call' = [call EXCEPT !.pc = "resanitized",
                            !.again = sanitize_for_filename(call.clean, call.max_length)]
    /\ UNCHANGED machine_vars
BuildFilename ==
    /\ call.fn = "build_filename"
    /\ call.pc = "called"
    /\ call' = [call EXCEPT !.pc = "returned",
                            !.filename = build_filename(call.author, call.topic, call.year,
                                                        call.max_length)]
    /\ UNCHANGED machine_vars

NextSanitize == Sanitize \/ SanitizeAgain \/ BuildFilename

SpecSanitize == InitSanitize /\ [][NextSanitize]_vars

\* the two writers called on one transcript
InitWriters ==
    /\ InitMachines
    /\ fs = TreeOf({})
    /\ dirs = {}
    /\ call \in {[fn |-> "write", transcript |-> t, md_written |-> FALSE, md |-> <<>>,
                  docx_written |-> FALSE, docx |-> <<>>] : t \in Transcripts}

WriteMarkdown ==
    /\ call.fn = "write"
    /\ ~call.md_written
    /\ call' = [call EXCEPT !.md_written = TRUE,
                            !.md = markdown_paragraphs(call.transcript)]
    /\ UNCHANGED machine_vars
WriteDocx ==
    /\ call.fn = "write"
    /\ ~call.docx_written
    /\ call' = [call EXCEPT !.docx_written = TRUE,
                            !.docx = docx_paragraphs(call.transcript)]
    /\ UNCHANGED machine_vars

NextWriters == WriteMarkdown \/ WriteDocx

SpecWriters == InitWriters /\ [][NextWriters]_vars

\* a call of extract_links_from_description
InitLinks ==
    /\ InitMachines
    /\ fs = TreeOf({})
    /\ dirs = {}
    /\ call \in {[fn |-> "extract_links_from_description", pc |-> "called",
                  lines |-> l, description |-> join_lines(l), links |-> <<>>] :
                   l \in DescLineLists}

ExtractLinks ==
    /\ call.fn = "extract_links_from_description"
    /\ call.pc = "called"
    /\ call' = [call EXCEPT !.pc = "returned",
                            !.links = extract_links_from_description(call.description)]
    /\ UNCHANGED machine_vars

NextLinks == ExtractLinks

SpecLinks == InitLinks /\ [][NextLinks]_vars

\* the start times format_timestamp is called with, in whole seconds
MaxSeconds == 3700
SecondsSamples == (0..MaxSeconds) \cup {5999, 6000, 35999, 36000, 86399, 360000}

\* a call of format_timestamp
InitFormat ==
    /\ InitMachines
    /\ fs = TreeOf({})
    /\ dirs = {}
    /\ call \in {[fn |-> "format_timestamp", pc |-> "called", seconds |-> t, out |-> <<>>] :
                   t \in SecondsSamples}

FormatTimestamp ==
    /\ call.fn = "format_timestamp"
    /\ call.pc = "called"
    /\ call' = [call EXCEPT !.pc = "returned", !.out = format_timestamp(call.seconds)]
    /\ UNCHANGED machine_vars

NextFormat == FormatTimestamp

SpecFormat == InitFormat /\ [][NextFormat]_vars

(***************************************************************************)
(* The claims.                                                             *)
(***************************************************************************)
\* the places, in ss_pending_videos, of the frozen item set
Frozen ==
    Places([i \in 1..Len(ss_pending_videos) |-> ss_pending_videos[i].selected], 1)

\* C1: the processing phase appends exactly one ProcessResult per frozen item, in
\* the original item order: while the loop runs, the results so far are those of
\* the first items of the frozen set, and in phase complete results has one entry
\* per frozen item, the i-th with the video_id of the i-th frozen item.
C1_OneResultPerFrozenItem ==
    /\ run.active =>
         /\ run.videos = Frozen
         /\ Len(run.results) = run.i
         /\ \A k \in 1..run.i :
              run.results[k].video_id = ss_pending_videos[Frozen[k]].video_id
    /\ ss_phase = "complete" =>
         /\ Len(ss_results) = Len(Frozen)
         /\ \A k \in 1..Len(Frozen) :
              ss_results[k].video_id = ss_pending_videos[Frozen[k]].video_id

\* a batch of three fetched videos, one of them unchecked, has ended with one
\* result of each status for the two others
C1_Witness ==
    /\ ss_phase = "complete"
    /\ Len(ss_pending_videos) = 3
    /\ Len(ss_results) = 2
    /\ ss_results[1].status = "error"
    /\ ss_results[2].status = "success"

\* C2: a failure of a step of one item never aborts the batch: when the command
\* line's run is over, every URL of the command line has been processed and the
\* success count plus the failure count is the number of URLs; when the session
\* is in phase complete, the successes and the errors add up to the frozen set.
C2_FailureNeverAbortsBatch ==
    /\ (cli.pc \in {"exited", "crashed"} /\ cli.urls # <<>>) =>
         /\ cli.i = Len(cli.urls)
         /\ cli.success_count + cli.fail_count = Len(cli.urls)
    /\ ss_phase = "complete" =>
         Cardinality({k \in 1..Len(ss_results) : ss_results[k].status = "success"})
           + Cardinality({k \in 1..Len(ss_results) : ss_results[k].status = "error"})
           = Len(Frozen)

\* the result of the k-th frozen item tells of a failed directory or write step
WriteFailed(k) ==
    ss_results[k].message \in {"mkdir", "write_markdown", "write_docx", "write_json"}

\* C3: an item whose transcript fetch failed (it has no transcript in phase
\* complete) has a result of status error, and a batch of three items in which
\* only the fetch of item 2 failed has the statuses success, error, success.
C3_FetchFailureIsError ==
    ss_phase = "complete" =>
      /\ \A k \in 1..Len(ss_results) :
           ss_pending_videos[Frozen[k]].transcript = <<>> => ss_results[k].status = "error"
      /\ ( /\ Len(ss_results) = 3
           /\ ss_pending_videos[2].transcript = <<>>
           /\ \A k \in {1, 3} : ss_pending_videos[k].transcript # <<>> /\ ~WriteFailed(k) )
         => [k \in 1..3 |-> ss_results[k].status] = <<"success", "error", "success">>

\* no item of the list is selected
NoneSelected(videos) == \A k \in 1..Len(videos) : ~videos[k].selected

\* C4: the transition review -> processing is rejected when no item is selected:
\* no step taken in phase review with an empty selection ends in phase
\* processing, for the BatchState object and for the session alike.
C4_EmptySelectionRejected ==
    /\ [][(phase = "review" /\ NoneSelected(pending_videos)) => phase' # "processing"]_vars
    /\ [][(ss_phase = "review" /\ ss_phase' = "processing")
            => ~NoneSelected(ss_pending_videos')]_vars

\* C5: results is non-empty only in phase complete, for the BatchState object and
\* for the session state.
C5_ResultsOnlyInComplete ==
    /\ results # <<>> => phase = "complete"
    /\ ss_results # <<>> => ss_phase = "complete"

\* the order of the phases
Rank(p) ==
    CASE p = "input" -> 0 [] p = "review" -> 1 [] p = "processing" -> 2 [] p = "complete" -> 3

\* C6: the phase only moves forward in the order input < review < processing <
\* complete, but for the reset to input, which empties items and results, for the
\* BatchState object and for the session state.
C6_PhaseOneDirectional ==
    /\ [][phase' # phase =>
            \/ Rank(phase') > Rank(phase)
            \/ phase' = "input" /\ pending_videos' = <<>> /\ results' = <<>>]_vars
    /\ [][ss_phase' # ss_phase =>
            \/ Rank(ss_phase') > Rank(ss_phase)
            \/ ss_phase' = "input" /\ ss_pending_videos' = <<>> /\ ss_results' = <<>>]_vars

\* C7: once the session is in phase processing it reaches phase complete with no
\* user action, and the step into complete is taken only when every frozen item
\* has its result, which is what phase complete then shows.
C7_ProcessingCompletes ==
    /\ (ss_phase = "processing") ~> (ss_phase = "complete")
    /\ [][(ss_phase = "processing" /\ ss_phase' = "complete") =>
            /\ Len(Frozen) > 0
            /\ Len(run.results) = Len(Frozen)
            /\ ss_results' = run.results]_vars

\* a processing run of two items has ended though both of them failed
C7_Witness ==
    /\ ss_phase = "complete"
    /\ Len(ss_results) = 2
    /\ \A k \in 1..2 : ss_results[k].status = "error"

\* C8: when the processing run is stopped in its loop, the files written so far
\* stay as they are and the results of the items that are done, and no others,
\* are in the session state.
C8_AbortKeepsResults ==
    [][(run.active /\ ~run'.active /\ ss_phase' # "complete")
         => (fs' = fs /\ ss_results' = run.results)]_vars

\* the least number of a non-empty set of numbers
Min(S) == CHOOSE m \in S : \A n \in S : m <= n

\* C9: a call of generate_unique_filename that has returned gave, of the composed
\* path (numbered 1) and the paths with _2, _3, ... up to the safety limit
\* appended to the whole filename, the one of the least number that did not exist
\* at the call, and failed with the ValueError when all of them existed; so with
\* X_Y_2024.md present it gave X_Y_2024_2.md, and with that present too
\* X_Y_2024_3.md.
C9_UniqueFilename ==
    \A w \in Workers : uniq[w].pc = "returned" =>
      LET a == uniq[w].args
          exists == uniq[w].exists
          r == uniq[w].result
          free == {j \in 1..SafetyLimit : NumberedPath(a, a.extension, j) \notin exists}
          md(name) == [dir |-> <<"X">>, name |-> name, ext |-> <<"m", "d">>]
          X_Y_2024 == <<"X", "_", "Y", "_", "2", "0", "2", "4">>
      IN /\ free = {} => (~r.ok /\ r.error = "ValueError")
         /\ free # {} =>
              /\ r.ok
              /\ r.path = NumberedPath(a, a.extension, Min(free))
              /\ r.path \notin exists
         /\ ( /\ a = [author |-> TextX, topic |-> TextY, year |-> Text2024,
                      extension |-> ExtMd]
              /\ md(X_Y_2024) \in exists )
            => /\ md(X_Y_2024 \o <<"_", "2">>) \notin exists
                 => (r.ok /\ r.path = md(X_Y_2024 \o <<"_", "2">>))
               /\ ( /\ md(X_Y_2024 \o <<"_", "2">>) \in exists
                    /\ md(X_Y_2024 \o <<"_", "3">>) \notin exists )
                 => (r.ok /\ r.path = md(X_Y_2024 \o <<"_", "3">>))

\* a caller has written X_Y_2024_2.md next to X_Y_2024.md, and the next call with
\* the same naming fields has returned X_Y_2024_3.md
C9_Witness ==
    /\ NumberedPath(NamingXY, ExtMd, 2) \in DOMAIN fs
    /\ fs[NumberedPath(NamingXY, ExtMd, 2)] \in Workers
    /\ \E w \in Workers :
         /\ uniq[w].pc = "returned"
         /\ uniq[w].result.ok
         /\ uniq[w].result.path = NumberedPath(NamingXY, ExtMd, 3)

\* every name up to the safety limit is taken and a call has failed
C9_Exhausted ==
    \E w \in Workers : uniq[w].pc = "returned" /\ ~uniq[w].result.ok

\* C10: processing never writes an output to a path that exists already: every
\* file of the tree, of an earlier run or of an earlier item of the batch, is
\* still there with its content after each step.
C10_NoOverwrite ==
    [][\A p \in DOMAIN fs : p \in DOMAIN fs' /\ fs'[p] = fs[p]]_vars

\* C11: the existence check and the file creation are not atomic. A call leaves
\* the path it returns non-existing, so until the caller writes, the path is
\* there only if another worker has written it since the check; and two workers
\* whose calls, with identical fields, each saw the other's path free hold the
\* same path.
C11_CheckThenCreateNotAtomic ==
    \A w \in Workers : (uniq[w].pc = "returned" /\ uniq[w].result.ok) =>
      /\ uniq[w].result.path \in DOMAIN fs =>
           fs[uniq[w].result.path] \in Workers \ {w}
      /\ \A v \in Workers \ {w} :
           ( /\ uniq[v].pc = "returned"
             /\ uniq[v].result.ok
             /\ uniq[v].args = uniq[w].args
             /\ uniq[v].result.path \notin uniq[w].exists
             /\ uniq[w].result.path \notin uniq[v].exists )
           => uniq[v].result.path = uniq[w].result.path

\* two workers have written to the same path, which neither found in the tree at
\* its check, and the file holds the content of one of them only
C11_Witness ==
    \E w \in Workers : \E v \in Workers \ {w} :
      /\ uniq[w].pc = "idle"
      /\ uniq[v].pc = "idle"
      /\ uniq[w].wrote # <<>>
      /\ uniq[v].wrote = uniq[w].wrote
      /\ fs[uniq[w].wrote] = v

\* the line as the loop sees it, and its text with the inline tags stripped
Stripped(line) == Strip(line, VttSpace)
Cleaned(line) == strip_tags(Stripped(line))

\* a line of the file that is neither blank, nor header or cue number, nor timing
IsContentLine(line) ==
    /\ Stripped(line) # <<>>
    /\ ~StartsWith(Stripped(line), WEBVTT)
    /\ ~StartsWith(Stripped(line), KindColon)
    /\ ~StartsWith(Stripped(line), LanguageColon)
    /\ ~isdigit(Stripped(line))
    /\ ~Contains(Stripped(line), Arrow)

\* the places of the content lines with a cleaned text that no content line
\* before them has
FirstOccurrences(lines) ==
    Places([i \in 1..Len(lines) |->
              /\ IsContentLine(lines[i])
              /\ Cleaned(lines[i]) # <<>>
              /\ \A j \in 1..(i - 1) :
                   IsContentLine(lines[j]) => Cleaned(lines[j]) # Cleaned(lines[i])], 1)

\* the call of parse_vtt_transcript has returned
Parsed == call.fn = "parse_vtt_transcript" /\ call.pc # "called"

\* C12: in the output of one parse no two entries have the same text: of the
\* content lines with the same cleaned text only the first gives an entry,
\* whatever lies between them, and the entries are in the order of their lines.
C12_FirstOccurrenceOnly ==
    Parsed =>
      /\ \A i \in 1..Len(call.entries) : \A j \in 1..Len(call.entries) :
           i # j => call.entries[i].text # call.entries[j].text
      /\ [k \in 1..Len(call.entries) |-> call.entries[k].text]
           = [k \in 1..Len(FirstOccurrences(call.lines)) |->
                Cleaned(call.lines[FirstOccurrences(call.lines)[k]])]

\* a file with the text hi before and, in tags, after a timing line gave one entry
C12_Witness ==
    /\ Parsed
    /\ call.lines = <<LineHi, LineTimingH5, LineTagHi>>
    /\ Len(call.entries) = 1

\* C13: parsing is idempotent on its own output: the entries written back as a
\* cue stream, one timing line and one content line per entry, parse to the same
\* sequence of entries.
C13_ParseIdempotent ==
    (call.fn = "parse_vtt_transcript" /\ call.pc = "reparsed") => call.again = call.entries

\* C19: a content line whose text is empty or only whitespace once the tags are
\* stripped gives no entry: every entry has a text with a character that is no
\* whitespace, and the entries are those of the other content lines.
C19_NoWhitespaceEntry ==
    Parsed =>
      /\ \A k \in 1..Len(call.entries) : Strip(call.entries[k].text, VttSpace) # <<>>
      /\ Len(call.entries)
           = Len(SelectSeq(FirstOccurrences(call.lines),
                           LAMBDA i : Strip(Cleaned(call.lines[i]), VttSpace) # <<>>))

\* a timing line as the loop meets it: a line with --> that is not skipped before
IsTimingLine(line) ==
    /\ Stripped(line) # <<>>
    /\ ~StartsWith(Stripped(line), WEBVTT)
    /\ ~StartsWith(Stripped(line), KindColon)
    /\ ~StartsWith(Stripped(line), LanguageColon)
    /\ ~isdigit(Stripped(line))
    /\ Contains(Stripped(line), Arrow)

\* the start time, in whole seconds, of a timing line H:MM:SS.fff --> ... or
\* MM:SS.fff --> ... (None for a line of neither form)
StartSeconds(line) ==
    LET n1 == DigitsLen(line)
        r1 == Drop(line, n1)
        n2 == DigitsLen(Drop(r1, 1))
        r2 == Drop(r1, 1 + n2)
        n3 == DigitsLen(Drop(r2, 1))
        r3 == Drop(r2, 1 + n3)
        g1 == int(SubSeq(line, 1, n1))
        g2 == int(SubSeq(r1, 2, 1 + n2))
        g3 == int(SubSeq(r2, 2, 1 + n3))
    IN IF ~(n1 > 0 /\ r1 # <<>> /\ Head(r1) = ":" /\ n2 > 0 /\ r2 # <<>>) THEN None
       ELSE IF Head(r2) = "." THEN g1 * 60 + g2
       ELSE IF Head(r2) = ":" /\ n3 > 0 /\ r3 # <<>> /\ Head(r3) = "."
       THEN g1 * 3600 + g2 * 60 + g3
       ELSE None

\* the timestamp of the most recent timing line before line i, the sentinel
\* [00:00] when there is none
CursorAt(lines, i) ==
    LET timing == {j \in 1..(i - 1) : IsTimingLine(lines[j])}
        last == CHOOSE j \in timing : \A b \in timing : b <= j
    IN IF timing = {} THEN SentinelTimestamp
       ELSE format_timestamp(StartSeconds(Stripped(lines[last])))

\* C20: every timing line, in the form H:MM:SS.fff or MM:SS.fff, sets the time
\* cursor to its start in whole seconds and gives no entry: each entry has the
\* timestamp of the most recent timing line before its content line, and
\* [00:00] when no timing line comes before it.
C20_TimingLineSetsCursor ==
    Parsed =>
      /\ Len(call.entries) = Len(FirstOccurrences(call.lines))
      /\ \A k \in 1..Len(call.entries) :
           call.entries[k].timestamp = CursorAt(call.lines, FirstOccurrences(call.lines)[k])

\* C14: sanitization is idempotent: for every text and every max length, the
\* sanitized text sanitized again with the same max length is the same text.
C14_SanitizeIdempotent ==
    (call.fn = "sanitize_for_filename" /\ call.pc = "resanitized") => call.again = call.clean

\* the text has a character that sanitization keeps and that is no separator
HasKeptChar(text) ==
    \E i \in 1..Len(text) :
      text[i] \notin IllegalChars \cup OtherChars \cup SpaceChars \cup {"_"}

\* C15: sanitization never yields an empty string, and yields the placeholder
\* untitled whenever the cleaned text is empty: for the empty text, a text of
\* whitespace, of removed characters or of separators only, and a text emptied
\* by truncation; so a filename of build_filename is three non-empty sanitized
\* components joined by "_".
C15_NeverEmpty ==
    /\ (call.fn = "sanitize_for_filename" /\ call.pc # "called") =>
         /\ call.clean # <<>>
         /\ (~HasKeptChar(call.text) \/ call.max_length = 0) => call.clean = Untitled
    /\ (call.fn = "build_filename" /\ call.pc = "returned") =>
         \E a \in 1..Len(call.filename) : \E b \in (a + 2)..(Len(call.filename) - 1) :
           /\ a > 1
           /\ call.filename[a] = "_"
           /\ call.filename[b] = "_"
           /\ SubSeq(call.filename, 1, a - 1)
                = sanitize_for_filename(call.author, AuthorMaxLength)
           /\ SubSeq(call.filename, a + 1, b - 1)
                = sanitize_for_filename(call.topic, call.max_length)
           /\ SubSeq(call.filename, b + 1, Len(call.filename))
                = sanitize_for_filename(call.year, YearMaxLength)

\* a text of separators and removed characters only has been sanitized to untitled
C15_Witness ==
    /\ call.fn = "sanitize_for_filename"
    /\ call.pc = "returned"
    /\ call.text = <<"_", "/", " ">>
    /\ call.clean = Untitled

\* the places where a run of entries with one timestamp starts
RunStarts(transcript) ==
    Places([i \in 1..Len(transcript) |->
              i = 1 \/ transcript[i].timestamp # transcript[i - 1].timestamp], 1)

\* the texts of the k-th maximal run of entries with one timestamp, in order
RunTexts(transcript, k) ==
    LET starts == RunStarts(transcript)
        first == starts[k]
        last == IF k < Len(starts) THEN starts[k + 1] - 1 ELSE Len(transcript)
    IN [i \in 1..(last - first + 1) |-> transcript[first + i - 1].text]

\* C16: both writers make one paragraph of each maximal run of consecutive
\* entries with the same timestamp, in input order, with the run's timestamp
\* and the run's texts joined by spaces in their order: two adjacent entries
\* are in one paragraph iff their timestamps are equal.
C16_ParagraphGrouping ==
    LET t == call.transcript
        starts == RunStarts(t)
    IN /\ (call.fn = "write" /\ call.md_written) =>
            call.md = [k \in 1..Len(starts) |->
                         <<"*", "*">> \o t[starts[k]].timestamp \o <<"*", "*", " ">>
                           \o join(RunTexts(t, k)) \o <<"\n">>]
       /\ (call.fn = "write" /\ call.docx_written) =>
            call.docx = [k \in 1..Len(starts) |->
                           IF t[starts[k]].timestamp = <<>>
                           THEN <<join(RunTexts(t, k))>>
                           ELSE <<t[starts[k]].timestamp \o <<" ">>, join(RunTexts(t, k))>>]

\* entries stamped 5, 5, 6, 5 have been written as three paragraphs by both
C16_Witness ==
    /\ call.fn = "write"
    /\ [i \in 1..Len(call.transcript) |-> call.transcript[i].timestamp]
         = <<Stamp5, Stamp5, Stamp6, Stamp5>>
    /\ call.md_written
    /\ call.docx_written
    /\ Len(call.md) = 3
    /\ Len(call.docx) = 3

RECURSIVE UrlsOfLines(_)
\* the URL occurrences of the lines, top to bottom and left to right
UrlsOfLines(lines) ==
    IF lines = <<>> THEN <<>> ELSE Head(lines).urls \o UrlsOfLines(Tail(lines))

\* C17: link extraction returns the first min(20, N) of the N URL occurrences of
\* the text in first-seen order: none for a text without URLs, exactly 20 for a
\* text with more than 20, the later ones being dropped.
C17_FirstTwentyLinks ==
    (call.fn = "extract_links_from_description" /\ call.pc = "returned") =>
      LET all == UrlsOfLines(call.lines)
          n == IF Len(all) < 20 THEN Len(all) ELSE 20
      IN /\ Len(call.links) = n
         /\ \A k \in 1..n : call.links[k].url = all[k]

\* a description with 10, 11 and 1 URLs on its lines has given the first 20
C17_Witness ==
    /\ call.fn = "extract_links_from_description"
    /\ call.pc = "returned"
    /\ [k \in 1..Len(call.lines) |-> Len(call.lines[k].urls)] = <<10, 11, 1>>
    /\ Len(call.links) = 20
    /\ call.links[20].url = Url(29)

\* the paths process_single writes for the item at place i when its naming is
\* the fetched one
FetchedPaths(i) ==
    LET v == FetchedMeta(i)
        filename == build_filename(v.proposed_author, v.proposed_topic, v.proposed_year,
                                   filename_max_length)
    IN {build_output_path(v.proposed_author, filename, e) : e \in {ExtMd, ExtDocx, ExtJson}}

OverridesGiven == cli.args.author # <<>> \/ cli.args.topic # <<>> \/ cli.args.year # <<>>

\* C18: with more than one item and naming overrides given, a warning is issued
\* and no item, the first included, is named by an override: every file written
\* is at the path of its item's fetched author, topic and year.
C18_OverridesIgnoredInBatch ==
    (Len(cli.urls) > 1 /\ OverridesGiven) =>
      /\ cli.warned
      /\ \A p \in DOMAIN fs :
           fs[p] # 0 => (fs[p] \in 1..cli.i + 1 /\ p \in FetchedPaths(fs[p]))

\* two items with --author, --topic and --year given: both saved, warned
C18_Witness ==
    /\ Len(cli.urls) = 2
    /\ cli.args.author = TextB /\ cli.args.topic = TextT /\ cli.args.year = Text1999
    /\ cli.warned
    /\ cli.success_count = 2
    /\ \A i \in 1..2 : \A p \in FetchedPaths(i) : p \in DOMAIN fs /\ fs[p] = i

\* the fields of s between its colons
ColonFields(s) ==
    LET colons == {i \in 1..Len(s) : s[i] = ":"}
        at(k) == IF k = 0 THEN 0
                 ELSE IF k > Cardinality(colons) THEN Len(s) + 1
                 ELSE CHOOSE i \in colons : Cardinality({j \in colons : j < i}) = k - 1
    IN [k \in 1..(Cardinality(colons) + 1) |-> SubSeq(s, at(k - 1) + 1, at(k) - 1)]

\* C21: a start time of t whole seconds is formatted in brackets as hours,
\* minutes and seconds when t >= 3600 and as minutes and seconds otherwise, with
\* minutes below 60 and seconds below 60 in every formatted timestamp.
C21_HoursWhenPositive ==
    (call.fn = "format_timestamp" /\ call.pc = "returned") =>
      LET t == call.seconds
          out == call.out
          f == ColonFields(SubSeq(out, 2, Len(out) - 1))
      IN /\ Len(out) >= 2 /\ out[1] = "[" /\ out[Len(out)] = "]"
         /\ \A k \in 1..Len(f) : isdigit(f[k])
         /\ IF t >= 3600
            THEN /\ Len(f) = 3
                 /\ int(f[1]) = t \div 3600
                 /\ int(f[2]) = (t % 3600) \div 60 /\ int(f[2]) < 60
                 /\ int(f[3]) = t % 60 /\ int(f[3]) < 60
            ELSE /\ Len(f) = 2
                 /\ int(f[1]) = t \div 60 /\ int(f[1]) < 60
                 /\ int(f[2]) = t % 60 /\ int(f[2]) < 60

\* the component has at most max_length characters and does not end in the
\* separator
ComponentWithin(clean, max_length) ==
    /\ Len(clean) <= max_length
    /\ clean # <<>> => clean[Len(clean)] # "_"

\* C22: every sanitized component is at most its own max length and does not end
\* in the separator: a filename is an author segment of at most 30 characters,
\* a topic segment of at most the configured max length and a year segment of
\* at most 4 characters, joined by separators.
C22_ComponentsWithinMaxLength ==
    /\ (call.fn = "sanitize_for_filename" /\ call.pc = "returned") =>
         ComponentWithin(call.clean, call.max_length)
    /\ (call.fn = "build_filename" /\ call.pc = "returned") =>
         LET f == call.filename
         IN \E i \in 1..Len(f) : \E j \in (i + 1)..Len(f) :
              /\ f[i] = "_" /\ f[j] = "_"
              /\ ComponentWithin(SubSeq(f, 1, i - 1), 30)
              /\ ComponentWithin(SubSeq(f, i + 1, j - 1), call.max_length)
              /\ ComponentWithin(SubSeq(f, j + 1, Len(f)), 4)

====
